---- MODULE Spec2Model ----
(***************************************************************************)
(* Model of prueba_EndStop.c: the Z-axis oscillation controller.           *)
(*                                                                         *)
(* setup() configures the AccelStepper driver and commands a retraction;   *)
(* loop() samples the endstop, applies the two-branch decision rule and    *)
(* calls stepperZ.run() once.  One action models one call of setup() or    *)
(* one whole iteration of loop().                                          *)
(*                                                                         *)
(* The AccelStepper library is not part of the repository.  Its operations *)
(* are modelled from the driver contract (position counter, target,        *)
(* acceleration-limited ramp, at most one step per run()).  The ramp is    *)
(* abstracted to a signed level: the sign is the direction of travel, the  *)
(* magnitude minus one is the number of steps needed to stop.              *)
(*                                                                         *)
(* MAX_DISTANCE is 1000000 and TARGET_MICROSTEPS is 400 in the source; the *)
(* model keeps their order (TARGET_MICROSTEPS < MAX_DISTANCE) and scales   *)
(* both down so that a full forward travel is explored exhaustively.  The  *)
(* width of long is scaled with them (LONG_BITS).                          *)
(***************************************************************************)
EXTENDS Integers, Sequences, FiniteSets, TLC

\* ---------------------------------------------------------------- bounds
\* const long MAX_DISTANCE = 1000000 (scaled)
MAX_DISTANCE == 6
\* const long TARGET_MICROSTEPS = 0.5 * 800 = 400 (scaled, kept below MAX_DISTANCE)
TARGET_MICROSTEPS == 2
\* number of ramp levels of the driver (500^2 / (2*10000) = 12 steps to stop at full speed, scaled)
RampLevels == 3
\* the endstop may read asserted until rule 1 has fired this many times
MaxReversals == 2
\* saturation of the counter of consecutive no-op iterations
MaxStreak == 3
\* the endstop switch can close only at positions at or below -SwitchDepth
SwitchDepth == 3
\* width in bits of the long that holds positions and targets (32 on the AVR
\* target, scaled with MAX_DISTANCE so that repeated reversals can reach its end)
LONG_BITS == 6

\* ------------------------------------------------------------- constants
LOW == 0

\* digitalRead() returns LOW or HIGH
PinLevels == {LOW, LOW + 1}

\* range of the long that holds positions and targets
LONG_MAX == 2^(LONG_BITS - 1) - 1
LONG_MIN == (-LONG_MAX) - 1

\* ------------------------------------------------------------- arithmetic
Abs(x) == IF x < 0 THEN -x ELSE x
Sgn(x) == IF x > 0 THEN 1 ELSE IF x < 0 THEN -1 ELSE 0

\* a + b in two's complement of LONG_BITS bits, computed without leaving the range
AddLong(a, b) ==
  IF b > 0 /\ a > LONG_MAX - b THEN (LONG_MIN + (a - (LONG_MAX - b))) - 1
  ELSE IF b < 0 /\ a < LONG_MIN - b THEN (LONG_MAX + (a - (LONG_MIN - b))) + 1
  ELSE a + b

\* bool endstopHit = digitalRead(...): any non-zero level converts to true
BoolOfLevel(level) == level # 0
\* endstopHit == LOW: the bool is promoted to int before the comparison
IntOfBool(b) == IF b THEN 1 ELSE 0

\* ------------------------------------------------------ AccelStepper driver
\* A driver value h is a record [currentPos, targetPos, speed, calls]:
\* calls is the sequence of library calls made in the current setup()/loop().
NewStepper == [currentPos |-> 0, targetPos |-> 0, speed |-> 0, calls |-> <<>>]

Called(h, name) == [h EXCEPT !.calls = Append(@, name)]

currentPosition(h) == h.currentPos

distanceToGo(h) == AddLong(h.targetPos, -h.currentPos)

StepsToStop(s) == IF s = 0 THEN 0 ELSE Abs(s) - 1

computeNewSpeed(h) ==
  LET distanceTo == distanceToGo(h)
      s == h.speed
      new == IF distanceTo = 0 /\ StepsToStop(s) <= 1 THEN 0
             ELSE IF s = 0 THEN Sgn(distanceTo)
             ELSE IF distanceTo = 0 THEN s
             ELSE IF Sgn(s) # Sgn(distanceTo)
                  THEN (IF Abs(s) = 1 THEN Sgn(distanceTo) ELSE s - Sgn(s))
             ELSE IF StepsToStop(s) >= Abs(distanceTo)
                  THEN (IF Abs(s) = 1 THEN s ELSE s - Sgn(s))
             ELSE IF Abs(s) < RampLevels THEN s + Sgn(s)
             ELSE s
  IN [h EXCEPT !.speed = new]

moveToInner(h, absolute) ==
  IF h.targetPos # absolute
  THEN computeNewSpeed([h EXCEPT !.targetPos = absolute])
  ELSE h

moveTo(h, absolute) == moveToInner(Called(h, "moveTo"), absolute)

stop(h) ==
  LET c == Called(h, "stop")
  IN IF c.speed # 0
     THEN moveToInner(c, AddLong(c.currentPos, Sgn(c.speed) * (StepsToStop(c.speed) + 1)))
     ELSE c

setCurrentPosition(h, position) ==
  [Called(h, "setCurrentPosition") EXCEPT
     !.currentPos = position, !.targetPos = position, !.speed = 0]

setMaxSpeed(h) == Called(h, "setMaxSpeed")
setAcceleration(h) == Called(h, "setAcceleration")
setSpeed(h) == [Called(h, "setSpeed") EXCEPT !.speed = RampLevels]

\* run(): a step is made when the driver is moving and the step interval
\* has elapsed (due); the speed is recomputed after every step
run(h, due) ==
  LET c == Called(h, "run")
  IN IF c.speed # 0 /\ due
     THEN computeNewSpeed([c EXCEPT !.currentPos = AddLong(@, Sgn(c.speed))])
     ELSE c

println(h) == Called(h, "println")

\* ------------------------------------------------------------ the program
VARIABLES
  pc,             \* "setup" before setup(), "ready" after it, "loop" once loop() has run
  movingForward,  \* bool movingForward
  stepperZ,       \* the driver object: currentPos, targetPos, speed
  calls,          \* library calls made by the last setup() or loop()
  endstopHit,     \* local of loop(): the reading of the last iteration
  fired,          \* branches of the decision rule taken in the last iteration
  start,          \* movingForward, position, target, distanceToGo() at its start
  posRead,        \* currentPosition() as read inside the branch that last fired
  posBeforeRun,   \* currentPosition() just before run() in the last iteration
  fwdStart,       \* position at the last RETRACTING -> ADVANCING transition
  backStart,      \* position at the last ADVANCING -> RETRACTING transition (0 at start)
  everAsserted,   \* some iteration so far has read the endstop asserted
  reversals,      \* number of rule-1 firings so far
  sinceRule1,     \* loop iterations since the last rule-1 firing (saturating)
  streak,         \* consecutive iterations with endstop clear and distanceToGo() > 0
  streakMF,       \* movingForward at the start of that streak
  lastRule,       \* the branch that fired last: 1, 2, or 0 when none has fired
  prevFired       \* branches taken in the iteration before the last; {0} when there was none

vars == <<pc, movingForward, stepperZ, calls, endstopHit, fired, start,
          posRead, posBeforeRun, fwdStart, backStart, everAsserted,
          reversals, sinceRule1, streak, streakMF, lastRule, prevFired>>

Device(h) == [currentPos |-> h.currentPos, targetPos |-> h.targetPos, speed |-> h.speed]
Handle(dev) == [currentPos |-> dev.currentPos, targetPos |-> dev.targetPos,
                speed |-> dev.speed, calls |-> <<>>]

\* file-scope initialisers: movingForward = false, stepperZ constructed
Init ==
  /\ pc = "setup"
  /\ movingForward = FALSE
  /\ stepperZ = Device(NewStepper)
  /\ calls = <<>>
  /\ endstopHit = TRUE
  /\ fired = {}
  /\ start = [movingForward |-> FALSE, currentPos |-> 0, targetPos |-> 0, dist |-> 0]
  /\ posRead = 0
  /\ posBeforeRun = 0
  /\ fwdStart = 0
  /\ backStart = 0
  /\ everAsserted = FALSE
  /\ reversals = 0
  /\ sinceRule1 = 0
  /\ streak = 0
  /\ streakMF = FALSE
  /\ lastRule = 0
  /\ prevFired = {}

\* variant: the initial move is commanded forward instead of backward
setupBodyForward(h) ==
  moveTo(setCurrentPosition(setSpeed(setAcceleration(setMaxSpeed(println(h)))), 0),
         MAX_DISTANCE)

setupBody(h) ==
  moveTo(setCurrentPosition(setSpeed(setAcceleration(setMaxSpeed(println(h)))), 0),
         -MAX_DISTANCE)

Setup ==
  /\ pc = "setup"
  /\ LET h == setupBody(Handle(stepperZ))
     IN /\ stepperZ' = Device(h)
        /\ calls' = h.calls
  /\ pc' = "ready"
  /\ UNCHANGED <<movingForward, endstopHit, fired, start, posRead, posBeforeRun,
                 fwdStart, backStart, everAsserted, reversals, sinceRule1, streak,
                 streakMF, lastRule, prevFired>>

\* variant: two independent ifs, the second testing a distance read before the first
FiredRulesNoElse(mf, hit, dist) ==
  (IF ~mf /\ IntOfBool(hit) = LOW THEN {1} ELSE {})
    \cup (IF (mf \/ (~mf /\ IntOfBool(hit) = LOW)) /\ dist = 0 THEN {2} ELSE {})

\* variant: the arrival branch does not test movingForward
FiredRulesAnyArrival(mf, hit, dist) ==
  IF ~mf /\ IntOfBool(hit) = LOW THEN {1}
  ELSE IF dist = 0 THEN {2}
  ELSE {}

\* variant: the endstop is taken as active-high
FiredRulesActiveHigh(mf, hit, dist) ==
  IF ~mf /\ IntOfBool(hit) # LOW THEN {1}
  ELSE IF mf /\ dist = 0 THEN {2}
  ELSE {}

\* variant: the arrival branch tests != 0 instead of == 0
FiredRulesNotArrived(mf, hit, dist) ==
  IF ~mf /\ IntOfBool(hit) = LOW THEN {1}
  ELSE IF mf /\ dist # 0 THEN {2}
  ELSE {}

\* variant: the arrival branch fires only while the endstop reads clear
FiredRulesArrivalClear(mf, hit, dist) ==
  IF ~mf /\ IntOfBool(hit) = LOW THEN {1}
  ELSE IF mf /\ dist = 0 /\ IntOfBool(hit) # LOW THEN {2}
  ELSE {}

\* variant: the endstop branch does not test movingForward
FiredRulesAnyEndstop(mf, hit, dist) ==
  IF IntOfBool(hit) = LOW THEN {1}
  ELSE IF mf /\ dist = 0 THEN {2}
  ELSE {}

\* the decision rule of loop(): which branch is taken
FiredRules(mf, hit, dist) ==
  IF ~mf /\ IntOfBool(hit) = LOW THEN {1}
  ELSE IF mf /\ dist = 0 THEN {2}
  ELSE {}

\* variant: the forward move is the nominal TARGET_MICROSTEPS
forwardPositionNominal(h) == AddLong(currentPosition(h), TARGET_MICROSTEPS)

\* variant: the forward target is taken from the driver's target, not its position
forwardPositionFromTarget(h) == AddLong(h.targetPos, MAX_DISTANCE)

forwardPosition(h) == AddLong(currentPosition(h), MAX_DISTANCE)

\* variant: the retract target is absolute, as in setup()
backPositionAbsolute(h) == -MAX_DISTANCE

backPosition(h) == AddLong(currentPosition(h), -MAX_DISTANCE)

\* variant: the first branch stops the driver but commands no new target
Rule1NoMove(h) == stop(println(h))

\* variant: the first branch re-homes the position counter at the endstop
Rule1Rehome(h) ==
  LET stopped == setCurrentPosition(stop(println(h)), 0)
  IN moveTo(stopped, forwardPosition(stopped))

\* first branch: println, stop(), movingForward = true, moveTo(forwardPosition)
Rule1(h) ==
  LET stopped == stop(println(h))
  IN moveTo(stopped, forwardPosition(stopped))

\* variant: the second branch prints nothing
Rule2Silent(h) == moveTo(h, backPosition(h))

\* second branch: println, movingForward = false, moveTo(backPosition)
Rule2(h) ==
  LET p == println(h)
  IN moveTo(p, backPosition(p))

\* variant: run() sits in a final else and is skipped when a branch fires
AdvanceWhenIdle(h, rules, due) == IF rules = {} THEN run(h, due) ELSE h

\* stepperZ.run() at the end of loop(), whatever branch was taken
Advance(h, rules, due) == run(h, due)

\* variant: the second branch leaves movingForward as it was
FlagAfterNoReset(mf, rules) == IF 1 \in rules THEN TRUE ELSE mf

\* movingForward after the decision rule: true in the first branch, false in the second
FlagAfter(mf, rules) ==
  IF 2 \in rules THEN FALSE ELSE IF 1 \in rules THEN TRUE ELSE mf

\* one iteration of loop() as a function of the state on entry, the pin level
\* read and whether a step is due: the branches taken, the driver after the
\* decision rule (decided) and after run() (final), and the flag.  The driver
\* values after each branch are bound once (h1, h2) and then used.
loopBody(mf, dev, level, due) ==
  LET hit == BoolOfLevel(level)
      h0 == Handle(dev)
      dist == distanceToGo(h0)
      rules == FiredRules(mf, hit, dist)
      after1 == {IF 1 \in rules THEN Rule1(h0) ELSE h0}
      after2 == {IF 2 \in rules THEN Rule2(h1) ELSE h1 : h1 \in after1}
  IN CHOOSE r \in
       {[hit |-> hit, dist |-> dist, rules |-> rules,
         read1 |-> currentPosition(stop(println(h0))),
         read2 |-> currentPosition(println(h1)),
         decided |-> h2,
         final |-> Advance(h2, rules, due),
         mf |-> FlagAfter(mf, rules)] : h1 \in after1, h2 \in after2} : TRUE

LoopStep(level, due) ==
  /\ pc \in {"ready", "loop"}
  /\ \E r \in {loopBody(movingForward, stepperZ, level, due)} :
     \E rules \in {r.rules}, noop \in {r.hit /\ r.dist > 0} :
        /\ endstopHit' = r.hit
        /\ fired' = rules
        /\ start' = [movingForward |-> movingForward,
                     currentPos |-> stepperZ.currentPos,
                     targetPos |-> stepperZ.targetPos, dist |-> r.dist]
        /\ movingForward' = r.mf
        /\ stepperZ' = Device(r.final)
        /\ calls' = r.final.calls
        /\ posRead' = IF 2 \in rules THEN r.read2
                      ELSE IF 1 \in rules THEN r.read1
                      ELSE posRead
        /\ posBeforeRun' = currentPosition(r.decided)
        /\ fwdStart' = IF 1 \in rules THEN r.read1 ELSE fwdStart
        /\ backStart' = IF 2 \in rules THEN r.read2 ELSE backStart
        /\ everAsserted' = (everAsserted \/ IntOfBool(r.hit) = LOW)
        /\ reversals' = IF 1 \in rules /\ reversals < MaxReversals
                        THEN reversals + 1 ELSE reversals
        /\ sinceRule1' = IF 1 \in rules THEN 0
                         ELSE IF sinceRule1 < MAX_DISTANCE + RampLevels
                              THEN sinceRule1 + 1 ELSE sinceRule1
        /\ streak' = IF ~noop THEN 0
                     ELSE IF streak < MaxStreak THEN streak + 1 ELSE streak
        /\ streakMF' = IF noop /\ streak = 0 THEN movingForward ELSE streakMF
        /\ lastRule' = IF 2 \in rules THEN 2 ELSE IF 1 \in rules THEN 1 ELSE lastRule
        /\ prevFired' = IF pc = "ready" THEN {0} ELSE fired
  /\ pc' = "loop"

\* loop() with the endstop reading asserted at most MaxReversals times with effect
Loop ==
  \E level \in PinLevels, due \in BOOLEAN :
    /\ (IntOfBool(BoolOfLevel(level)) = LOW) => reversals < MaxReversals
    /\ LoopStep(level, due)

\* loop() with the endstop input stuck at LOW (sensor fault: constant level)
LoopStuckAsserted ==
  \E due \in BOOLEAN : LoopStep(LOW, due)

\* loop() with a switch that can read asserted only while the axis is at or
\* beyond it; it may also read clear there (no debouncing, bouncing contacts)
SwitchAllows(level) ==
  (IntOfBool(BoolOfLevel(level)) = LOW) => stepperZ.currentPos <= -SwitchDepth

LoopSwitch ==
  \E level \in PinLevels, due \in BOOLEAN :
    SwitchAllows(level) /\ LoopStep(level, due)

\* an iteration in which the driver's step interval has elapsed
LoopSwitchDue ==
  \E level \in PinLevels : SwitchAllows(level) /\ LoopStep(level, TRUE)

Next == Setup \/ Loop

NextSwitch == Setup \/ LoopSwitch

NextStuckAsserted == Setup \/ LoopStuckAsserted

Spec == Init /\ [][Next]_vars

\* the program with a positioned switch; loop() is called forever and the
\* driver's steps keep falling due
SpecSwitch ==
  /\ Init /\ [][NextSwitch]_vars
  /\ WF_vars(Setup) /\ WF_vars(LoopSwitchDue)

\* the program with the endstop reading asserted on every iteration
SpecStuckAsserted == Init /\ [][NextStuckAsserted]_vars

\* ------------------------------------------------------------ properties
Asserted == IntOfBool(endstopHit) = LOW
Iterated == pc = "loop"
CountOf(seq, name) == Cardinality({i \in 1..Len(seq) : seq[i] = name})

\* C1: an iteration that starts with movingForward false and reads the
\* endstop asserted ends with movingForward true and the target equal to
\* P + MAX_DISTANCE, P being the position read after stop() and before run(),
\* whatever distance was left toward the retract target.
EndstopReversal ==
  (Iterated /\ ~start.movingForward /\ Asserted) =>
     /\ movingForward = TRUE
     /\ posRead = posBeforeRun
     /\ stepperZ.targetPos = posRead + MAX_DISTANCE

EndstopReversalSeen ==
  /\ Iterated /\ ~start.movingForward /\ Asserted
  /\ start.dist < -1
  /\ posRead # 0

\* C2: an iteration that starts with movingForward true and distanceToGo()
\* zero ends with movingForward false and the target equal to P - MAX_DISTANCE,
\* P being the position when the branch fires, whatever the endstop reads.
ArrivalReversal ==
  (Iterated /\ start.movingForward /\ start.dist = 0) =>
     /\ movingForward = FALSE
     /\ posRead = posBeforeRun
     /\ stepperZ.targetPos = posRead - MAX_DISTANCE

ArrivalReversalSeen ==
  /\ Iterated /\ start.movingForward /\ start.dist = 0
  /\ Asserted

\* C3: at every loop-iteration boundary the target is the position of the
\* last transition into the current direction plus (advancing) or minus
\* (retracting) MAX_DISTANCE, with 0 standing for the position when no
\* retract transition has happened yet.
TargetInvariant ==
  (pc # "setup") =>
     /\ movingForward => stepperZ.targetPos = fwdStart + MAX_DISTANCE
     /\ ~movingForward => stepperZ.targetPos = backStart - MAX_DISTANCE

TargetInvariantSeen ==
  /\ Iterated /\ ~movingForward
  /\ 2 \in fired
  /\ backStart # 0

\* C4: right after setup() and before the first loop iteration,
\* movingForward is false, the position is 0 and the target is -MAX_DISTANCE.
InitialState ==
  (pc = "ready") =>
     /\ movingForward = FALSE
     /\ stepperZ.currentPos = 0
     /\ stepperZ.targetPos = -MAX_DISTANCE

InitialStateSeen ==
  /\ pc = "ready"
  /\ CountOf(calls, "moveTo") = 1
  /\ CountOf(calls, "setCurrentPosition") = 1

\* C5: an iteration that starts with movingForward false and reads the
\* endstop clear takes no branch: movingForward and the target are as at
\* its start and the position is untouched up to run(), also when
\* distanceToGo() is 0.
NoReversalWhileClear ==
  (Iterated /\ ~start.movingForward /\ ~Asserted) =>
     /\ fired = {}
     /\ movingForward = start.movingForward
     /\ stepperZ.targetPos = start.targetPos
     /\ posBeforeRun = start.currentPos

NoReversalWhileClearSeen ==
  /\ Iterated /\ ~start.movingForward /\ ~Asserted
  /\ start.dist = 0

\* C6: at most one branch fires per iteration; when the endstop branch's
\* condition holds at the start it is the one that fires, the arrival branch
\* is skipped, and movingForward is left true.
PriorityOrdering ==
  Iterated =>
     /\ Cardinality(fired) <= 1
     /\ (~start.movingForward /\ Asserted) => (fired = {1} /\ movingForward = TRUE)
     /\ (1 \in fired) => (2 \notin fired)

PriorityOrderingSeen ==
  /\ Iterated /\ fired = {1}
  /\ start.dist = 0

\* C7: every loop iteration calls run() exactly once, as its last call,
\* whichever branch fired.
TickOncePerIteration ==
  Iterated =>
     /\ CountOf(calls, "run") = 1
     /\ calls[Len(calls)] = "run"

TickOncePerIterationSeen ==
  /\ Iterated /\ fired = {2}
  /\ CountOf(calls, "moveTo") = 1

\* C8: after any number of consecutive iterations that each start with the
\* endstop reading clear and distanceToGo() > 0, movingForward is what it was
\* before the first of them.
NoOpTicksKeepDirection ==
  (Iterated /\ streak >= 1) => movingForward = streakMF

NoOpTicksKeepDirectionSeen ==
  /\ Iterated /\ streak = MaxStreak
  /\ streakMF = TRUE

StuckClearRetracts ==
  /\ []((pc # "setup" /\ ~everAsserted) =>
          /\ movingForward = FALSE
          /\ stepperZ.targetPos = -MAX_DISTANCE
          /\ fired = {}
          /\ reversals = 0
          /\ stepperZ.currentPos >= -MAX_DISTANCE)
  /\ [][(pc # "setup" /\ ~everAsserted' /\ stepperZ.currentPos = -MAX_DISTANCE)
          => stepperZ'.currentPos = -MAX_DISTANCE]_vars

StuckClearRetractsSeen ==
  /\ Iterated /\ ~everAsserted
  /\ start.currentPos = -MAX_DISTANCE
  /\ stepperZ.currentPos = -MAX_DISTANCE
  /\ stepperZ.speed = 0

\* C11: when the first loop iteration after setup() reads the endstop
\* asserted, the endstop branch fires in it before any run(): the position
\* read is 0, movingForward is left true and the target is 0 + MAX_DISTANCE;
\* and when the iteration right after an arrival reversal reads the endstop
\* asserted, the endstop branch fires in it.
SpuriousReversal ==
  /\ (Iterated /\ prevFired = {0} /\ Asserted) =>
        /\ fired = {1}
        /\ movingForward = TRUE
        /\ posRead = 0
        /\ posBeforeRun = 0
        /\ stepperZ.targetPos = 0 + MAX_DISTANCE
  /\ (Iterated /\ 2 \in prevFired /\ Asserted) => fired = {1}

SpuriousReversalSeen ==
  /\ Iterated /\ 2 \in prevFired /\ Asserted
  /\ fired = {1}
  /\ reversals = 2

\* C12: in every loop iteration the decision rule, stop() and moveTo()
\* included, leaves the position as it was on entry, run() changes it by at
\* most one step, and the position counter is not reset.
PositionOnlyByRun ==
  Iterated =>
     /\ posBeforeRun = start.currentPos
     /\ Abs(stepperZ.currentPos - posBeforeRun) <= 1
     /\ CountOf(calls, "setCurrentPosition") = 0

PositionOnlyByRunSeen ==
  /\ Iterated /\ fired = {1}
  /\ start.currentPos # 0
  /\ stepperZ.currentPos # posBeforeRun

\* C14: setup() prints one line; a loop iteration prints one line when the
\* endstop branch fires, one line when the arrival branch fires, and none
\* when no branch fires.
LogTracksTransitions ==
  /\ (pc = "ready") => CountOf(calls, "println") = 1
  /\ Iterated => CountOf(calls, "println") = (IF fired = {} THEN 0 ELSE 1)

LogTracksTransitionsSeen ==
  /\ Iterated /\ fired = {2}
  /\ CountOf(calls, "println") = 1
  /\ lastRule = 2

\* C15: from a state with movingForward true, the iteration gives the same
\* movingForward, position and target whatever the endstop reads (for the
\* same step timing).
EndstopIgnoredWhileAdvancing ==
  (pc # "setup" /\ movingForward) =>
     \A due \in BOOLEAN : \A l1 \in PinLevels, l2 \in PinLevels :
        LET a == loopBody(movingForward, stepperZ, l1, due)
            b == loopBody(movingForward, stepperZ, l2, due)
        IN /\ a.mf = b.mf
           /\ a.final.currentPos = b.final.currentPos
           /\ a.final.targetPos = b.final.targetPos

EndstopIgnoredWhileAdvancingSeen ==
  /\ Iterated /\ start.movingForward /\ Asserted
  /\ movingForward
  /\ stepperZ.currentPos # start.currentPos

\* C16: the position and every target computed as currentPosition() +
\* MAX_DISTANCE or currentPosition() - MAX_DISTANCE stay within the range of
\* long, whatever the endstop reads.
NoOverflow ==
  /\ (pc # "setup") =>
        /\ stepperZ.currentPos \in LONG_MIN..LONG_MAX
        /\ stepperZ.targetPos \in LONG_MIN..LONG_MAX
  /\ Iterated =>
        /\ (1 \in fired) => posRead + MAX_DISTANCE <= LONG_MAX
        /\ (2 \in fired) => posRead - MAX_DISTANCE >= LONG_MIN
        /\ Abs(stepperZ.currentPos - posBeforeRun) <= 1

\* C13: every reachable state has a successor (setup() or a loop iteration);
\* the endstop branch and the arrival branch fire in strict alternation,
\* the endstop branch first; and when the endstop reads asserted infinitely
\* often, movingForward is true infinitely often and false infinitely often.
BothStatesRecurrent ==
  /\ [](ENABLED NextSwitch)
  /\ [][/\ (pc' = "loop" /\ 1 \in fired') => lastRule \in {0, 2}
        /\ (pc' = "loop" /\ 2 \in fired') => lastRule = 1]_vars
  /\ ([]<>(Iterated /\ Asserted)) => ([]<>movingForward /\ []<>(~movingForward))

BothStatesRecurrentSeen ==
  /\ Iterated /\ fired = {2}
  /\ reversals = MaxReversals
  /\ lastRule = 2

====
